---- MODULE Spec2Model ----
(***************************************************************************)
(* compute_distribution of run.py: the training-mixture calculator.        *)
(*                                                                         *)
(* Python floats are modelled as exact rationals [n, d] (d > 0, lowest     *)
(* terms); values produced by round(x, 4) are integers in units of 0.0001. *)
(* Python dicts are sequences of [k, v] pairs in insertion order, since    *)
(* max(d, key=d.get) and {**a, **b} depend on that order.                  *)
(***************************************************************************)
EXTENDS Integers, Sequences, FiniteSets

\* ------------------------------------------------------------------ bounds
MaxLen == 3                   \* records in the input file
MaxTok == 3                   \* the largest token count of a record
\* the total_training_tokens argument; __main__ passes 4 * 10^12, which only
\* scales the usage report
TotalTrainingTokens == 1000

\* 10 ** 4: the scale of round(x, 4)
Unit == 10000

\* -------------------------------------------------------------- rationals
Abs(x) == IF x < 0 THEN -x ELSE x

RECURSIVE GCD(_, _)
GCD(a, b) == IF b = 0 THEN a ELSE GCD(b, a % b)

\* the rational n/d in lowest terms with a positive denominator (d # 0)
Rat(n, d) ==
    LET g == GCD(Abs(n), Abs(d))
        s == IF d < 0 THEN -1 ELSE 1
    IN  [n |-> (s * n) \div g, d |-> (s * d) \div g]

Zero == [n |-> 0, d |-> 1]
One == [n |-> 1, d |-> 1]
FromInt(i) == [n |-> i, d |-> 1]

RAdd(x, y) == Rat(x.n * y.d + y.n * x.d, x.d * y.d)
RSub(x, y) == Rat(x.n * y.d - y.n * x.d, x.d * y.d)
RMul(x, y) ==
    LET a == Rat(x.n, y.d)
        b == Rat(y.n, x.d)
    IN  [n |-> a.n * b.n, d |-> a.d * b.d]
\* x / y, y # 0
RDiv(x, y) == RMul(x, Rat(y.d, y.n))
RLt(x, y) == x.n * y.d < y.n * x.d
RLe(x, y) == x.n * y.d <= y.n * x.d

\* x lies exactly halfway between two multiples of 0.0001
IsHalf(x) == 2 * ((x.n * Unit) % x.d) = x.d

\* round(x, 4) in units of 0.0001: the nearest multiple. round() rounds the
\* binary float, which lies on either side of a decimal half (or on it, and
\* then goes to the even neighbour): up tells which way such a half goes.
Round4(x, up) ==
    LET m == x.n * Unit
        q == m \div x.d
        r == m % x.d
    IN  IF 2 * r < x.d THEN q
        ELSE IF 2 * r > x.d THEN q + 1
        ELSE IF up THEN q + 1 ELSE q

\* the float a rounded value stands for
FromUnits(u) == Rat(u, Unit)

\* ------------------------------------------------------------------ dicts
Keys(dict) == {dict[j].k : j \in 1..Len(dict)}
Has(dict, key) == \E j \in 1..Len(dict) : dict[j].k = key
\* dict.get(key, default)
Get(dict, key, default) ==
    IF Has(dict, key)
    THEN dict[CHOOSE j \in 1..Len(dict) : dict[j].k = key].v
    ELSE default
\* dict[key] = val: an existing key keeps its position
Put(dict, key, val) ==
    IF Has(dict, key)
    THEN [j \in 1..Len(dict) |->
            IF dict[j].k = key THEN [k |-> key, v |-> val] ELSE dict[j]]
    ELSE Append(dict, [k |-> key, v |-> val])
\* {**a, **b}
RECURSIVE Update(_, _)
Update(a, b) ==
    IF b = <<>> THEN a ELSE Update(Put(a, Head(b).k, Head(b).v), Tail(b))
\* sum(dict.values()) over rationals and over integers
RECURSIVE RSum(_)
RSum(dict) == IF dict = <<>> THEN Zero ELSE RAdd(Head(dict).v, RSum(Tail(dict)))
RECURSIVE ISum(_)
ISum(dict) == IF dict = <<>> THEN 0 ELSE Head(dict).v + ISum(Tail(dict))
\* max(dict, key=dict.get) over integer values: the first key attaining the maximum
MaxKey(dict) ==
    LET j == CHOOSE a \in 1..Len(dict) :
                /\ \A b \in 1..Len(dict) : dict[b].v <= dict[a].v
                /\ \A b \in 1..(a - 1) : dict[b].v < dict[a].v
    IN  dict[j].k

\* ------------------------------------------------- stages of the function
InList(x, list) == \E j \in 1..Len(list) : list[j] = x

\* a validation that forgets the path
Valid_PathUnchecked(entry) ==
    /\ entry.lang # ""
    /\ entry.dataset # ""
    /\ entry.isint

\* all([lang, ds, path, isinstance(tokens, int)]): a missing or empty string
\* field is "", isint tells whether the token count is an int
Valid(entry) ==
    /\ entry.lang # ""
    /\ entry.dataset # ""
    /\ entry.path # ""
    /\ entry.isint

\* a drop that looks the dataset up under every lang of the drop config
Dropped_UnderAnyLang(entry, drop) ==
    \E j \in 1..Len(drop) : InList(entry.dataset, drop[j].v)

\* ds in drop_datasets_per_lang.get(lang, [])
Dropped(entry, drop) == InList(entry.dataset, Get(drop, entry.lang, <<>>))

\* {ds: new_lang for new_lang, datasets in merge_datasets.items() for ds in datasets}
RECURSIVE PutAll(_, _, _)
PutAll(dict, datasets, new_lang) ==
    IF datasets = <<>> THEN dict
    ELSE PutAll(Put(dict, Head(datasets), new_lang), Tail(datasets), new_lang)
RECURSIVE DatasetToNewIso(_)
DatasetToNewIso(merge) ==
    IF merge = <<>> THEN <<>>
    ELSE LET last == merge[Len(merge)]
         IN  PutAll(DatasetToNewIso(SubSeq(merge, 1, Len(merge) - 1)), last.v, last.k)

\* a merge target that ignores the merge config
NewLang_OwnLang(entry, d2n) == entry.lang

\* dataset_to_new_iso.get(entry["dataset"], entry["lang"])
NewLang(entry, d2n) == Get(d2n, entry.dataset, entry.lang)

\* lang_to_tokens[entry["lang"]] += entry["gemma-3-tok"], over the entries
RECURSIVE LangToTokens(_)
LangToTokens(entries) ==
    IF entries = <<>> THEN <<>>
    ELSE LET e == entries[Len(entries)]
             acc == LangToTokens(SubSeq(entries, 1, Len(entries) - 1))
         IN  Put(acc, e.lang, Get(acc, e.lang, 0) + e.tokens)

\* merged_lang_tokens[new_lang] += entry["gemma-3-tok"], over the entries
RECURSIVE MergedLangTokens(_, _)
MergedLangTokens(entries, d2n) ==
    IF entries = <<>> THEN <<>>
    ELSE LET e == entries[Len(entries)]
             acc == MergedLangTokens(SubSeq(entries, 1, Len(entries) - 1), d2n)
             new_lang == NewLang(e, d2n)
         IN  Put(acc, new_lang, Get(acc, new_lang, 0) + e.tokens)

\* sum(tokens for lang, tokens in merged_lang_tokens.items() if lang not in fixed_proportions)
LeftoverTokens(merged, fixed) ==
    ISum(SelectSeq(merged, LAMBDA p : ~Has(fixed, p.k)))

\* the distribution of the "Distribution calculation" block
RawDistribution(merged, fixed) ==
    LET leftover_tokens == LeftoverTokens(merged, fixed)
        rest == RSub(One, RSum(fixed))
    IN  IF leftover_tokens > 0
        THEN [j \in 1..Len(merged) |->
                [k |-> merged[j].k,
                 v |-> Get(fixed, merged[j].k,
                           RMul(Rat(merged[j].v, leftover_tokens), rest))]]
        ELSE fixed

\* bumps, to_adjust and adjust_total of the "Minimum threshold applying" block
Bumps(dist, fixed, thr) ==
    LET low == SelectSeq(dist, LAMBDA p : ~Has(fixed, p.k) /\ RLt(p.v, thr))
    IN  [j \in 1..Len(low) |-> [k |-> low[j].k, v |-> thr]]
ToAdjust(dist, fixed, thr) ==
    SelectSeq(dist, LAMBDA p : ~Has(fixed, p.k) /\ ~Has(Bumps(dist, fixed, thr), p.k))
\* the three nested ifs: min_threshold truthy, bumps non-empty, adjust_total > 0
Rescales(dist, fixed, thr) ==
    /\ thr # Zero
    /\ Bumps(dist, fixed, thr) # <<>>
    /\ RLt(Zero, RSum(ToAdjust(dist, fixed, thr)))

MinThresholdApply(dist, fixed, thr) ==
    IF Rescales(dist, fixed, thr)
    THEN LET bumps == Bumps(dist, fixed, thr)
             to_adjust == ToAdjust(dist, fixed, thr)
             scale_factor == RDiv(RSub(RSub(One, RSum(fixed)), RSum(bumps)),
                                  RSum(to_adjust))
             adjusted == [j \in 1..Len(to_adjust) |->
                            [k |-> to_adjust[j].k,
                             v |-> RMul(to_adjust[j].v, scale_factor)]]
         IN  Update(Update(fixed, bumps), adjusted)
    ELSE dist

\* distribution = {lang: val / total_prop ...} if total_prop > 0
Normalize(dist) ==
    LET total_prop == RSum(dist)
    IN  IF RLt(Zero, total_prop)
        THEN [j \in 1..Len(dist) |-> [k |-> dist[j].k, v |-> RDiv(dist[j].v, total_prop)]]
        ELSE dist

\* {k: round(v, 4) for k, v in d.items()}; ups: the keys whose half goes up
HalfKeys(dist) == {dist[j].k : j \in {a \in 1..Len(dist) : IsHalf(dist[a].v)}}
RoundAll(dist, ups) ==
    [j \in 1..Len(dist) |-> [k |-> dist[j].k, v |-> Round4(dist[j].v, dist[j].k \in ups)]]

\* a language-level rounding without the remainder correction
CorrectLang_Skipped(rnd) == rnd

\* the remainder correction of the language-level distribution
CorrectLang(rnd) ==
    LET diff == Unit - ISum(rnd)
    IN  IF diff # 0 /\ rnd # <<>>
        THEN Put(rnd, MaxKey(rnd), Get(rnd, MaxKey(rnd), 0) + diff)
        ELSE rnd

\* language_usage_report
UsageReport(rnd, merged, total_training_tokens) ==
    LET used == SelectSeq(rnd, LAMBDA p : Get(merged, p.k, 0) > 0)
    IN  [j \in 1..Len(used) |->
            [k |-> used[j].k,
             v |-> RDiv(RMul(FromUnits(used[j].v), FromInt(total_training_tokens)),
                        FromInt(Get(merged, used[j].k, 1)))]]

\* dataset_proportions as the loop over filtered_data builds it; a group
\* missing from rounded or with a total of 0 tokens writes nothing
HasShare(e, d2n, rnd, merged) ==
    /\ Has(rnd, NewLang(e, d2n))
    /\ Has(merged, NewLang(e, d2n))
    /\ Get(merged, NewLang(e, d2n), 0) > 0
Share(e, d2n, rnd, merged) ==
    RMul(FromUnits(Get(rnd, NewLang(e, d2n), 0)),
         Rat(e.tokens, Get(merged, NewLang(e, d2n), 1)))
RECURSIVE DatasetProportions(_, _, _, _)
DatasetProportions(entries, d2n, rnd, merged) ==
    IF entries = <<>> THEN <<>>
    ELSE LET e == entries[Len(entries)]
             acc == DatasetProportions(SubSeq(entries, 1, Len(entries) - 1), d2n, rnd, merged)
         IN  IF HasShare(e, d2n, rnd, merged)
             THEN Put(acc, e.path, Share(e, d2n, rnd, merged))
             ELSE acc

\* a dataset-level rounding without the remainder correction
CorrectDataset_Skipped(rnd) == rnd

\* the remainder correction of the dataset-level proportions
CorrectDataset(rnd) ==
    LET diff == Unit - ISum(rnd)
    IN  IF diff # 0 /\ rnd # <<>>
        THEN Put(rnd, MaxKey(rnd), Get(rnd, MaxKey(rnd), 0) + diff)
        ELSE rnd

\* ------------------------------------------------------------------ inputs
Entry(lang, dataset, path, tokens, isint) ==
    [lang |-> lang, dataset |-> dataset, path |-> path, tokens |-> tokens, isint |-> isint]

\* the lines a file is made of, with token counts from 0 to MaxTok as the data
\* model has them; the last three fail the validation of entries
Entries ==
    { Entry("eng", "web", "eng/web", MaxTok, TRUE),
      Entry("fra", "web", "fra/web", 1, TRUE),
      Entry("deu", "web", "deu/web", 1, TRUE),
      Entry("fra", "starcoder", "code/starcoder", 1, TRUE),
      Entry("eng", "starcoder", "eng/web", 1, TRUE),
      Entry("deu", "web", "deu/empty", 0, TRUE),
      Entry("eng", "starcoder", "", 1, TRUE),
      Entry("", "web", "fra/web", 1, TRUE),
      Entry("fra", "web", "fra/web", 0, FALSE) }

Files ==
    {[status |-> "ok", lines |-> l] : l \in UNION {[1..n -> Entries] : n \in 0..MaxLen}}
    \cup {[status |-> "missing", lines |-> <<>>], [status |-> "malformed", lines |-> <<>>]}

DropConfigs == { <<>>, <<[k |-> "eng", v |-> <<"starcoder">>]>> }
MergeConfigs == { <<>>, <<[k |-> "code", v |-> <<"starcoder">>]>> }
FixedConfigs ==
    { <<>>,
      <<[k |-> "eng", v |-> Rat(1, 2)]>>,
      <<[k |-> "eng", v |-> Rat(1, 2)], [k |-> "code", v |-> Rat(1, 4)]>>,
      <<[k |-> "eng", v |-> Rat(1, 2)], [k |-> "code", v |-> Rat(3, 4)]>> }
\* Zero stands for a min_threshold of None or 0: both are falsy
Thresholds == { Zero, Rat(3, 10), Rat(3, 5) }

\* ------------------------------------------------------------------- state
VARIABLES
    jsonl, drop_datasets_per_lang, merge_datasets, fixed_proportions, min_threshold,
    pc, data, i, filtered_data, lang_to_tokens, dataset_to_new_iso, merged_lang_tokens,
    total_available_tokens, fixed_sum, distribution, rounded, language_usage_report,
    dataset_proportions, final_dataset_proportions, result, error, stdout

inputs == <<jsonl, drop_datasets_per_lang, merge_datasets, fixed_proportions, min_threshold>>
locals == <<data, i, filtered_data, lang_to_tokens, dataset_to_new_iso, merged_lang_tokens,
            total_available_tokens, fixed_sum, distribution, rounded,
            language_usage_report, dataset_proportions, final_dataset_proportions>>
vars == <<inputs, pc, locals, result, error, stdout>>

NoResult ==
    [returned |-> FALSE, distribution |-> <<>>, total_available_tokens |-> 0,
     language_usage_report |-> <<>>, dataset_proportions |-> <<>>]

Init ==
    /\ jsonl \in Files
    /\ drop_datasets_per_lang \in DropConfigs
    /\ merge_datasets \in MergeConfigs
    /\ fixed_proportions \in FixedConfigs
    /\ min_threshold \in Thresholds
    /\ pc = "load"
    /\ data = <<>>
    /\ i = 1
    /\ filtered_data = <<>>
    /\ lang_to_tokens = <<>>
    /\ dataset_to_new_iso = <<>>
    /\ merged_lang_tokens = <<>>
    /\ total_available_tokens = 0
    /\ fixed_sum = Zero
    /\ distribution = <<>>
    /\ rounded = <<>>
    /\ language_usage_report = <<>>
    /\ dataset_proportions = <<>>
    /\ final_dataset_proportions = <<>>
    /\ result = NoResult
    /\ error = ""
    /\ stdout = ""

\* raise: the frame is left with its locals as they are, nothing is returned
Raise(msg) ==
    /\ pc' = "raised"
    /\ error' = msg
    /\ UNCHANGED <<result, stdout>>

\* ----------------------------------------------------------------- actions
\* Data loading
Load ==
    /\ pc = "load"
    /\ IF jsonl.status = "ok"
       THEN /\ data' = jsonl.lines
            /\ pc' = "validate"
            /\ UNCHANGED <<result, error, stdout>>
       ELSE /\ Raise(IF jsonl.status = "missing" THEN "FileNotFoundError"
                     ELSE "ValueError: not a valid JSONL file")
            /\ UNCHANGED data
    /\ UNCHANGED <<inputs, i, filtered_data, lang_to_tokens, dataset_to_new_iso,
                   merged_lang_tokens, total_available_tokens, fixed_sum, distribution,
                   rounded, language_usage_report, dataset_proportions,
                   final_dataset_proportions>>

\* Validating and datasets dropping: one iteration of the loop over data
ValidateEntry ==
    /\ pc = "validate"
    /\ i <= Len(data)
    /\ IF ~Valid(data[i])
       THEN /\ Raise("ValueError: invalid or missing key in entry")
            /\ UNCHANGED <<i, filtered_data>>
       ELSE /\ filtered_data' = IF Dropped(data[i], drop_datasets_per_lang)
                                THEN filtered_data
                                ELSE Append(filtered_data, data[i])
            /\ i' = i + 1
            /\ UNCHANGED <<pc, result, error, stdout>>
    /\ UNCHANGED <<inputs, data, lang_to_tokens, dataset_to_new_iso, merged_lang_tokens,
                   total_available_tokens, fixed_sum, distribution, rounded,
                   language_usage_report, dataset_proportions, final_dataset_proportions>>

\* Merging datasets by language and across languages
Aggregate ==
    /\ pc = "validate"
    /\ i > Len(data)
    /\ lang_to_tokens' = LangToTokens(filtered_data)
    /\ dataset_to_new_iso' = DatasetToNewIso(merge_datasets)
    /\ merged_lang_tokens' = MergedLangTokens(filtered_data, dataset_to_new_iso')
    /\ total_available_tokens' = ISum(merged_lang_tokens')
    /\ pc' = "fixed_sum"
    /\ UNCHANGED <<inputs, data, i, filtered_data, fixed_sum, distribution, rounded,
                   language_usage_report, dataset_proportions, final_dataset_proportions,
                   result, error, stdout>>

\* fixed_sum and the check that it is at most 1
CheckFixedSum ==
    /\ pc = "fixed_sum"
    /\ fixed_sum' = RSum(fixed_proportions)
    /\ IF RLt(One, fixed_sum')
       THEN Raise("ValueError: fixed proportions sum to more than 1")
       ELSE /\ pc' = "distribution"
            /\ UNCHANGED <<result, error, stdout>>
    /\ UNCHANGED <<inputs, data, i, filtered_data, lang_to_tokens, dataset_to_new_iso,
                   merged_lang_tokens, total_available_tokens, distribution, rounded,
                   language_usage_report, dataset_proportions, final_dataset_proportions>>

\* Distribution calculation
CalculateDistribution ==
    /\ pc = "distribution"
    /\ distribution' = RawDistribution(merged_lang_tokens, fixed_proportions)
    /\ pc' = "threshold"
    /\ UNCHANGED <<inputs, data, i, filtered_data, lang_to_tokens, dataset_to_new_iso,
                   merged_lang_tokens, total_available_tokens, fixed_sum, rounded,
                   language_usage_report, dataset_proportions, final_dataset_proportions,
                   result, error, stdout>>

\* Minimum threshold applying
ApplyMinThreshold ==
    /\ pc = "threshold"
    /\ distribution' = MinThresholdApply(distribution, fixed_proportions, min_threshold)
    /\ pc' = "normalize"
    /\ UNCHANGED <<inputs, data, i, filtered_data, lang_to_tokens, dataset_to_new_iso,
                   merged_lang_tokens, total_available_tokens, fixed_sum, rounded,
                   language_usage_report, dataset_proportions, final_dataset_proportions,
                   result, error, stdout>>

\* Normalization and rounding of language-level distribution
NormalizeAndRound ==
    /\ pc = "normalize"
    /\ distribution' = Normalize(distribution)
    /\ \E ups \in SUBSET HalfKeys(Normalize(distribution)) :
          rounded' = CorrectLang(RoundAll(Normalize(distribution), ups))
    /\ pc' = "report"
    /\ UNCHANGED <<inputs, data, i, filtered_data, lang_to_tokens, dataset_to_new_iso,
                   merged_lang_tokens, total_available_tokens, fixed_sum,
                   language_usage_report, dataset_proportions, final_dataset_proportions,
                   result, error, stdout>>

\* Report generation
GenerateReport ==
    /\ pc = "report"
    /\ language_usage_report' = UsageReport(rounded, merged_lang_tokens, TotalTrainingTokens)
    /\ pc' = "datasets"
    /\ UNCHANGED <<inputs, data, i, filtered_data, lang_to_tokens, dataset_to_new_iso,
                   merged_lang_tokens, total_available_tokens, fixed_sum, distribution,
                   rounded, dataset_proportions, final_dataset_proportions,
                   result, error, stdout>>

\* High-precision proportions for each path, then their rounding
GenerateDatasetProportions ==
    /\ pc = "datasets"
    /\ LET props == DatasetProportions(filtered_data, dataset_to_new_iso, rounded,
                                       merged_lang_tokens)
       IN  /\ dataset_proportions' = props
           /\ \E ups \in SUBSET HalfKeys(props) :
                 final_dataset_proportions' = CorrectDataset(RoundAll(props, ups))
    /\ pc' = "return"
    /\ UNCHANGED <<inputs, data, i, filtered_data, lang_to_tokens, dataset_to_new_iso,
                   merged_lang_tokens, total_available_tokens, fixed_sum, distribution,
                   rounded, language_usage_report, result, error, stdout>>

Return ==
    /\ pc = "return"
    /\ result' = [returned |-> TRUE,
                  distribution |-> rounded,
                  total_available_tokens |-> total_available_tokens,
                  language_usage_report |-> language_usage_report,
                  dataset_proportions |-> final_dataset_proportions]
    /\ pc' = "returned"
    /\ UNCHANGED <<inputs, locals, error, stdout>>

\* __main__: the output logic of the try block
MainPrint ==
    /\ pc = "returned"
    /\ stdout' = "Final Training Distribution"
    /\ pc' = "exit"
    /\ UNCHANGED <<inputs, locals, result, error>>

\* __main__: except (FileNotFoundError, ValueError) as e: print(e)
MainExcept ==
    /\ pc = "raised"
    /\ stdout' = error
    /\ pc' = "exit"
    /\ UNCHANGED <<inputs, locals, result, error>>

Next ==
    \/ Load
    \/ ValidateEntry
    \/ Aggregate
    \/ CheckFixedSum
    \/ CalculateDistribution
    \/ ApplyMinThreshold
    \/ NormalizeAndRound
    \/ GenerateReport
    \/ GenerateDatasetProportions
    \/ Return
    \/ MainPrint
    \/ MainExcept

Spec == Init /\ [][Next]_vars

\* the whole function on a file of valid entries: every result it may return,
\* one for each way the decimal halves fall
Results(lines, drop, merge, fixed, thr) ==
    LET filtered == SelectSeq(lines, LAMBDA e : ~Dropped(e, drop))
        d2n == DatasetToNewIso(merge)
        merged == MergedLangTokens(filtered, d2n)
        dist == Normalize(MinThresholdApply(RawDistribution(merged, fixed), fixed, thr))
    IN  UNION {
          LET rnd == CorrectLang(RoundAll(dist, ul))
              props == DatasetProportions(filtered, d2n, rnd, merged)
          IN  {[returned |-> TRUE,
                distribution |-> rnd,
                total_available_tokens |-> ISum(merged),
                language_usage_report |-> UsageReport(rnd, merged, TotalTrainingTokens),
                dataset_proportions |-> CorrectDataset(RoundAll(props, ud))]
                  : ud \in SUBSET HalfKeys(props)}
          : ul \in SUBSET HalfKeys(dist)}

\* ------------------------------------------------------------- properties
Returned == pc = "returned"
Lines == jsonl.lines
\* the entry fails the validation the specification describes
Invalid(e) == e.lang = "" \/ e.dataset = "" \/ e.path = "" \/ ~e.isint
\* the dataset of e is listed in the drop config under the lang of e
ListedInDrop(e) ==
    \E j \in 1..Len(drop_datasets_per_lang) :
        /\ drop_datasets_per_lang[j].k = e.lang
        /\ \E a \in 1..Len(drop_datasets_per_lang[j].v) :
              drop_datasets_per_lang[j].v[a] = e.dataset
\* the dataset of e is listed in the merge config under group g
ListedInMerge(e, g) ==
    \E j \in 1..Len(merge_datasets) :
        /\ merge_datasets[j].k = g
        /\ \E a \in 1..Len(merge_datasets[j].v) : merge_datasets[j].v[a] = e.dataset
\* the group whose totals e counts toward
Target(e) ==
    IF \E g \in Keys(merge_datasets) : ListedInMerge(e, g)
    THEN CHOOSE g \in Keys(merge_datasets) : ListedInMerge(e, g)
    ELSE e.lang
\* the tokens of the surviving records that count toward group g
RECURSIVE TokensUpTo(_, _)
TokensUpTo(g, n) ==
    IF n = 0 THEN 0
    ELSE TokensUpTo(g, n - 1)
         + (IF Target(filtered_data[n]) = g THEN filtered_data[n].tokens ELSE 0)
GroupTokens(g) == TokensUpTo(g, Len(filtered_data))
\* u units is x rounded to 4 decimals (a half either way)
IsRound4(u, x) == Abs(2 * (u * x.d - x.n * Unit)) <= x.d
\* the rounded values before the remainder correction, halves down
RoundedLang == RoundAll(distribution, {})
RoundedDataset == RoundAll(dataset_proportions, {})

\* C1 as stated: the rounded values of the returned distribution sum to
\* exactly 1.0 for every valid input, also when no record survives the drop.
C1_SumIsOne == Returned => ISum(result.distribution) = Unit

\* C1 amended: the rounded values of the returned distribution sum to exactly
\* 1.0 unless fixed_proportions is empty and the surviving records hold no
\* tokens in total (leftover_tokens <= 0); then the distribution is empty.
C1_SumIsOneUnlessEmpty ==
    Returned =>
        IF fixed_proportions = <<>> /\ result.total_available_tokens <= 0
        THEN result.distribution = <<>>
        ELSE ISum(result.distribution) = Unit

\* C1 witness: three groups were returned and the remainder correction acted
C1_Witness ==
    /\ Returned
    /\ Len(result.distribution) = 3
    /\ ISum(RoundedLang) # Unit
    /\ ISum(result.distribution) = Unit

\* C2 as stated: the rounded values of the returned dataset_proportions sum
\* to exactly 1.0 for every valid input.
C2_DatasetSumIsOne == Returned => ISum(result.dataset_proportions) = Unit

\* C2 amended: the rounded values of dataset_proportions sum to exactly 1.0
\* whenever some surviving record belongs to a group that is a key of the
\* distribution and holds tokens; otherwise dataset_proportions is empty.
C2_DatasetSumIsOneUnlessEmpty ==
    Returned =>
        IF \E j \in 1..Len(filtered_data) :
              /\ Has(result.distribution, Target(filtered_data[j]))
              /\ GroupTokens(Target(filtered_data[j])) > 0
        THEN ISum(result.dataset_proportions) = Unit
        ELSE result.dataset_proportions = <<>>

\* C2 witness: two surviving records share a path, a fixed group has no
\* data, and the dataset-level remainder correction acted
C2_Witness ==
    /\ Returned
    /\ \E a, b \in 1..Len(filtered_data) :
          a # b /\ filtered_data[a].path = filtered_data[b].path
    /\ \E g \in Keys(fixed_proportions) : GroupTokens(g) = 0
    /\ ISum(RoundedDataset) # Unit
    /\ ISum(result.dataset_proportions) = Unit

\* C3: every value of the returned distribution is >= 0 and <= 1.
C3_ValuesInUnitInterval ==
    Returned =>
        \A j \in 1..Len(result.distribution) :
            result.distribution[j].v >= 0 /\ result.distribution[j].v <= Unit

\* the remainder of rounding n values is at most n / 2 units
RemainderBound(n) == (n + 1) \div 2

\* C4: a fixed group with tokens gets its configured fixed value in the
\* returned distribution, up to rounding and the remainder correction.
C4_FixedValueKept ==
    Returned =>
        \A g \in Keys(fixed_proportions) :
            GroupTokens(g) > 0 =>
                /\ Has(result.distribution, g)
                /\ Abs(Get(result.distribution, g, 0) * Get(fixed_proportions, g, Zero).d
                       - Get(fixed_proportions, g, Zero).n * Unit)
                     <= (1 + RemainderBound(Len(result.distribution)))
                          * Get(fixed_proportions, g, Zero).d

\* C5: when the rescaling of the threshold stage runs, every non-fixed group
\* with a nonzero raw proportion has at least min_threshold after the stage.
C5_ThresholdReached ==
    [][(pc = "threshold" /\ Rescales(distribution, fixed_proportions, min_threshold)) =>
          \A j \in 1..Len(distribution) :
              (~Has(fixed_proportions, distribution[j].k) /\ distribution[j].v # Zero) =>
                  /\ Has(distribution', distribution[j].k)
                  /\ RLe(min_threshold, Get(distribution', distribution[j].k, Zero))]_vars

C7_DropRemovesRecords ==
    Returned =>
        result \in Results(SelectSeq(Lines, LAMBDA e : ~ListedInDrop(e)), <<>>,
                           merge_datasets, fixed_proportions, min_threshold)

\* C7 witness: a record of a merge source was dropped, another record of the
\* same dataset and of another lang survived
C7_Witness ==
    /\ Returned
    /\ \E a, b \in 1..Len(Lines) :
          /\ ListedInDrop(Lines[a]) /\ ListedInMerge(Lines[a], "code")
          /\ ~ListedInDrop(Lines[b]) /\ Lines[b].dataset = Lines[a].dataset
    /\ result.total_available_tokens > 0

C9_AbsentFixedGroup ==
    Returned =>
        \A g \in Keys(fixed_proportions) :
            (\A j \in 1..Len(filtered_data) : Target(filtered_data[j]) # g) =>
                /\ Has(result.distribution, g)
                /\ IsRound4(Get(result.distribution, g, 0), Get(fixed_proportions, g, Zero))
                /\ ~Has(result.language_usage_report, g)

\* C10: every surviving record whose group holds tokens and has a share has
\* an entry for its path, which is the group's share times the record's part
\* of the group's tokens, rounded to 4 decimals, except for the first largest
\* entry, which takes the remainder.
C10_EntryPerRecord ==
    Returned =>
        \A j \in 1..Len(filtered_data) :
            LET e == filtered_data[j]
                g == Target(e)
            IN  (GroupTokens(g) > 0 /\ Has(result.distribution, g)) =>
                    /\ Has(result.dataset_proportions, e.path)
                    /\ \/ IsRound4(Get(result.dataset_proportions, e.path, 0),
                                   RMul(FromUnits(Get(result.distribution, g, 0)),
                                        Rat(e.tokens, GroupTokens(g))))
                       \/ \E ups \in SUBSET HalfKeys(dataset_proportions) :
                             e.path = MaxKey(RoundAll(dataset_proportions, ups))
====
